---- MODULE Spec2Model ----
(***************************************************************************)
(* Model of the GGUF artifact manager of VingAIMobile:                     *)
(*   utils/fileSystem.ts   getModelsDirectory, ensureModelsDirectory,      *)
(*                         getDownloadedModels, downloadGGUFModel,         *)
(*                         deleteGGUFModel                                 *)
(*   App.tsx               loadModels, handleModelDownloaded,              *)
(*                         handleModelDelete                               *)
(*   ModelDownloader.tsx   handleDownload                                  *)
(*   ChatTab.tsx           sendMessage and its simulated reply             *)
(* Every `await` of the source is a scheduling point: one action performs  *)
(* the awaited native call of RNFS and runs the continuation up to the     *)
(* next await.  RNFS calls that can reject (mkdir, readDir, stat, unlink,  *)
(* the transfer) reject nondeterministically.                              *)
(***************************************************************************)
EXTENDS Integers, Sequences, FiniteSets, TLC

(* ------------------------------ bounds --------------------------------- *)
\* number of presses of the Download button and calls of downloadGGUFModel in one run
MaxCalls == 2
\* number of messages the user sends in the chat tab in one run
MaxSends == 2
\* length of a response body, in write units
BodyLen == 2

\* the only status downloadGGUFModel accepts (fileSystem.ts:89)
StatusOK == 200
\* the statuses a server answers with in this model
StatusCodes == {200, 404}

\* the callers of downloadGGUFModel: handleDownload of the one ModelDownloader
\* on the screen, and any other caller of the exported function
Calls == {"ui", "other"}

(* ------------------------------ strings -------------------------------- *)
\* ".gguf", character by character
Ext == <<".", "g", "g", "u", "f">>

\* String.prototype.endsWith
EndsWith(s, suf) ==
  /\ Len(s) >= Len(suf)
  /\ SubSeq(s, Len(s) - Len(suf) + 1, Len(s)) = suf

\* index of the first occurrence of pat in s, 0 when there is none
IndexOf(s, pat) ==
  LET hits == { i \in 1..(Len(s) - Len(pat) + 1) : SubSeq(s, i, i + Len(pat) - 1) = pat }
  IN  IF hits = {} THEN 0 ELSE CHOOSE i \in hits : \A j \in hits : i <= j

\* String.prototype.replace(pat, ''): removes the FIRST occurrence of pat
ReplaceFirst(s, pat) ==
  LET i == IndexOf(s, pat)
  IN  IF i = 0 THEN s
      ELSE SubSeq(s, 1, i - 1) \o SubSeq(s, i + Len(pat), Len(s))

\* getModelsDirectory(): `${baseDir}/gguf-models`; baseDir is fixed by the platform
getModelsDirectory == <<"base", "/", "gguf-models">>

\* the model names a caller passes to downloadGGUFModel
ReqNames == { <<"a">>, <<"a">> \o Ext, <<"b">> }

\* sanitizedModelName (fileSystem.ts:65-67)
AlwaysAppendExt(modelName) == modelName \o Ext
SanitizedModelName(modelName) ==
  IF EndsWith(modelName, Ext) THEN modelName ELSE modelName \o Ext

\* destPath (fileSystem.ts:69)
DestPathInBase(fileName) == <<"base", "/">> \o fileName
DestPath(fileName) == getModelsDirectory \o <<"/">> \o fileName

\* the last path segment: the file name of a path inside the root
BaseName(path) == SubSeq(path, Len(getModelsDirectory) + 2, Len(path))

\* the destination paths of the requested names: the artifacts a root may
\* hold at the start
Paths == { DestPath(SanitizedModelName(n)) : n \in ReqNames }

\* String.prototype.split(sep): the segments of s between the separators
RECURSIVE Split(_, _)
Split(s, sep) ==
  LET hits == { i \in 1..Len(s) : s[i] = sep }
  IN  IF hits = {} THEN <<s>>
      ELSE LET i == CHOOSE h \in hits : \A j \in hits : h <= j
           IN  <<SubSeq(s, 1, i - 1)>> \o Split(SubSeq(s, i + 1, Len(s)), sep)

\* urlParts[urlParts.length - 1]
LastSegment(s) == Split(s, "/")[Len(Split(s, "/"))]

\* the directories and the file a path names once the file system has
\* resolved its parent-directory segments
RECURSIVE Canonical(_, _)
Canonical(done, segments) ==
  IF segments = <<>> THEN done
  ELSE IF Head(segments) = <<".", ".">>
         THEN Canonical(SubSeq(done, 1, Len(done) - 1), Tail(segments))
         ELSE Canonical(Append(done, Head(segments)), Tail(segments))
CanonicalPath(path) == Canonical(<<>>, Split(path, "/"))

\* the directory that holds the file a path names
ParentDir(path) == SubSeq(CanonicalPath(path), 1, Len(CanonicalPath(path)) - 1)

\* the file a path names is an entry of the root itself
DirectlyInRoot(path) == ParentDir(path) = CanonicalPath(getModelsDirectory)

\* model names a user may type besides the requested names: none at all,
\* one with a parent-directory segment, one with a subdirectory
TypedNames == { <<>>, <<".", ".", "/", "b">>, <<"sub", "/", "b">> }

\* TextInput value of the model name turned into the argument of the call
\* (ModelDownloader.tsx:41)
NameArg(modelName) == IF modelName = <<>> THEN <<"unnamed-model">> ELSE modelName

\* every path a call of this model can name
FilePaths == Paths \cup { DestPath(SanitizedModelName(NameArg(n))) : n \in TypedNames }

\* readDir order: a fixed enumeration of the paths that are entries of the root
RECURSIVE SeqOfSet(_)
SeqOfSet(S) ==
  IF S = {} THEN <<>>
  ELSE LET x == CHOOSE y \in S : TRUE IN <<x>> \o SeqOfSet(S \ {x})
PathOrder == SeqOfSet({ p \in FilePaths : DirectlyInRoot(p) })

(* ------------------------------- state --------------------------------- *)
VARIABLES
  dirExists,    \* the artifact root exists
  fs,           \* path -> [exists, size, valid]: the files of the root
  catalog,      \* App state downloadedModels: sequence of Model records
  isLoading,    \* App state isLoading
  nextId,       \* number of uuidv4() values drawn so far
  others,       \* entries of the root that no download of the app wrote
  scanPc,       \* position of loadModels / getDownloadedModels
  rootExisted,  \* the scan's ensureModelsDirectory: its local exists, while it matters
  listing,      \* result of RNFS.readDir held by the pending continuation
  pc,           \* call -> position of handleDownload / downloadGGUFModel
  reqName,      \* call -> modelName argument
  err,          \* call -> error the call is failing or has failed with
  pos,          \* call -> bytes the transfer has written so far
  fd,           \* call -> "none" | "live" | "orphan" | "closed": the file the transfer opened
  contentLength, \* call -> res.contentLength of the transfer's progress events
  progress,     \* call -> last value the pending transfer passed to progressCallback
  downloading,  \* ModelDownloader state downloading
  nCalls,       \* number of calls started so far
  delPc,        \* position of handleModelDelete / deleteGGUFModel
  delModel,     \* the Model passed to handleModelDelete
  delOutcome,   \* how the last deleteGGUFModel settled
  chat          \* ChatTab state: messages, inputText, isLoading, pending timers

vars == <<dirExists, fs, others, catalog, isLoading, nextId, scanPc, rootExisted, listing, pc, reqName,
          err, pos, fd, contentLength, progress, downloading, nCalls,
          delPc, delModel, delOutcome, chat>>

scanVars == <<others, scanPc, rootExisted, listing, isLoading>>
dlVars == <<pc, reqName, err, pos, fd, contentLength, progress, downloading, nCalls>>
delVars == <<delPc, delModel, delOutcome>>

Absent == [exists |-> FALSE, size |-> 0, valid |-> FALSE]
Whole == [exists |-> TRUE, size |-> BodyLen, valid |-> TRUE]
NoModel == [id |-> 0, name |-> <<>>, path |-> <<>>, size |-> 0]

Max(a, b) == IF a >= b THEN a ELSE b

\* nothing has been passed to progressCallback
NoProgress == <<>>

\* RNFS.exists(path) for a file of the root
Exists(path) == path \in DOMAIN fs /\ fs[path].exists

\* the destination path of call d
Dest(d) == DestPath(SanitizedModelName(reqName[d]))

\* RNFS.unlink(path) succeeding: the name disappears, open writers keep
\* writing to the unlinked file, and a call that wrote and closed the file
\* has no file under the name any more
FsUnlink(path) == [fs EXCEPT ![path] = Absent]
FdUnlink(path) ==
  [d \in Calls |->
     IF Dest(d) # path THEN fd[d]
     ELSE IF fd[d] = "live" THEN "orphan"
     ELSE IF fd[d] = "closed" THEN "none"
     ELSE fd[d]]

\* the transfer of call d ends and closes the file it opened: the file is
\* still under the destination name unless it was unlinked meanwhile
FdClose(d) == [fd EXCEPT ![d] = IF fd[d] = "live" THEN "closed" ELSE "none"]

\* call d settles: it holds no file any more
FdSettle(d) == [fd EXCEPT ![d] = "none"]

(* ------------------------------ chat tab ------------------------------- *)
\* the texts the user may have typed in the chat input: nothing, a space,
\* words, a word between spaces
Texts == { <<>>, <<" ">>, <<"h">>, <<"h", "i">>, <<" ", "h", " ">> }

\* String.prototype.trim
RECURSIVE Trim(_)
Trim(s) ==
  IF s = <<>> THEN s
  ELSE IF Head(s) = " " THEN Trim(Tail(s))
  ELSE IF s[Len(s)] = " " THEN Trim(SubSeq(s, 1, Len(s) - 1))
  ELSE s

\* inputText.trim() === ''
EmptyOnly(text) == text = <<>>
Blank(text) == Trim(text) = <<>>

\* the greeting ChatTab starts with, the message of the user and the
\* simulated response to it
Greeting == [isUser |-> FALSE, text |-> <<"Hello!">>]
NewMessage(text) == [isUser |-> TRUE, text |-> text]
ModelResponse(text) == [isUser |-> FALSE, text |-> <<"response to">> \o text]

\* ChatTab's useState initial values
ChatMounted ==
  [messages |-> <<Greeting>>, inputText |-> <<>>, isLoading |-> FALSE, timers |-> <<>>]

\* sendMessage: blank text returns at once; otherwise the message is
\* appended, the input cleared, isLoading set and the reply scheduled with
\* the text the closure holds
sendMessage(st) ==
  IF Blank(st.inputText) THEN st
  ELSE [messages |-> Append(st.messages, NewMessage(st.inputText)),
        inputText |-> <<>>,
        isLoading |-> TRUE,
        timers |-> Append(st.timers, st.inputText)]

\* the callback of setTimeout: the response is appended, isLoading cleared
TimerCallback(st) ==
  [messages |-> Append(st.messages, ModelResponse(Head(st.timers))),
   inputText |-> st.inputText,
   isLoading |-> FALSE,
   timers |-> Tail(st.timers)]

\* the send button's disabled prop: inputText.trim() === '' || isLoading; a
\* state update made by a press handler is rendered before the next press
\* arrives
DisabledWhenBlank(st) == Blank(st.inputText)
SendDisabled(st) == Blank(st.inputText) \/ st.isLoading

\* the messages of the user in the list, and the simulated responses
Sent(st) == Len(SelectSeq(st.messages, LAMBDA m : m.isUser))
Replies(st) == Len(SelectSeq(st.messages, LAMBDA m : ~m.isUser)) - 1

(* ------------------------------- Init ---------------------------------- *)
\* State after App is mounted: the catalog is empty, isLoading is true and
\* loadModels() has been called (awaiting RNFS.exists of the root).  The root
\* may hold complete artifacts of an earlier run.
Mounted ==
  /\ dirExists \in BOOLEAN
  /\ fs \in { [p \in FilePaths |-> IF p \in Paths THEN f[p] ELSE Absent] :
                f \in [Paths -> {Absent, Whole}] }
  /\ (~dirExists => \A p \in Paths : fs[p] = Absent)
  /\ catalog = <<>>
  /\ isLoading = TRUE
  /\ nextId = 0
  /\ scanPc = "exists"
  /\ rootExisted = "unknown"
  /\ listing = <<>>
  /\ pc = [d \in Calls |-> "idle"]
  /\ reqName = [d \in Calls |-> <<>>]
  /\ err = [d \in Calls |-> "none"]
  /\ pos = [d \in Calls |-> 0]
  /\ fd = [d \in Calls |-> "none"]
  /\ contentLength = [d \in Calls |-> 0]
  /\ progress = [d \in Calls |-> NoProgress]
  /\ downloading = FALSE
  /\ nCalls = 0
  /\ delPc = "idle"
  /\ delModel = NoModel
  /\ delOutcome = "none"
  /\ chat = ChatMounted

\* the root holds nothing but what the downloads of the app wrote
Init == Mounted /\ others = <<>>

(* --------------------- startup scan: loadModels ------------------------ *)
\* one entry of RNFS.readDir for the file at path p
DirEntry(p) ==
  [name |-> BaseName(p), path |-> p, size |-> fs[p].size, isFile |-> TRUE]

\* entries of the root that no download of the app wrote: a text file, a
\* subdirectory whose name ends in .gguf, a file whose name holds .gguf
\* twice, a plain subdirectory, an empty artifact copied into the root
OtherEntries ==
  << [name |-> <<"notes", ".", "t", "x", "t">>,
      path |-> DestPath(<<"notes", ".", "t", "x", "t">>),
      size |-> 1, isFile |-> TRUE],
     [name |-> <<"x">> \o Ext, path |-> DestPath(<<"x">> \o Ext),
      size |-> 0, isFile |-> FALSE],
     [name |-> <<"c">> \o Ext \o <<"d">> \o Ext,
      path |-> DestPath(<<"c">> \o Ext \o <<"d">> \o Ext),
      size |-> 1, isFile |-> TRUE],
     [name |-> <<"sub">>, path |-> DestPath(<<"sub">>),
      size |-> 0, isFile |-> FALSE],
     [name |-> <<"e">> \o Ext, path |-> DestPath(<<"e">> \o Ext),
      size |-> 0, isFile |-> TRUE] >>

\* the other entries a root may hold, in directory order
OtherListings ==
  { SelectSeq(OtherEntries, LAMBDA e : \E i \in I : OtherEntries[i] = e) :
      I \in SUBSET (1..Len(OtherEntries)) }

\* the root holds other entries too, when it exists
InitScan ==
  /\ Mounted
  /\ others \in OtherListings
  /\ (~dirExists => others = <<>>)

\* RNFS.readDir(modelsDir): the entries of the root, in directory order
ReadDirAll == [i \in 1..Len(PathOrder) |-> DirEntry(PathOrder[i])] \o others
ReadDir ==
  LET present == SelectSeq(PathOrder, LAMBDA p : fs[p].exists)
  IN  [i \in 1..Len(present) |-> DirEntry(present[i])] \o others

\* the Model getDownloadedModels builds for a directory entry
ScanModel(file, id) ==
  [id |-> id, name |-> ReplaceFirst(file.name, Ext), path |-> file.path, size |-> file.size]

\* the loop of getDownloadedModels over the entries; ids are drawn in order
ScanModelsOneId(files, firstId) ==
  LET kept == SelectSeq(files, LAMBDA f : EndsWith(f.name, Ext))
  IN  [i \in 1..Len(kept) |-> ScanModel(kept[i], firstId + 1)]
ScanModels(files, firstId) ==
  LET kept == SelectSeq(files, LAMBDA f : EndsWith(f.name, Ext))
  IN  [i \in 1..Len(kept) |-> ScanModel(kept[i], firstId + i)]

\* getDownloadedModels' catch block: return []
ListedOnError == ReadDir
ReturnedOnError == <<>>

\* loadModels' finally block: setIsLoading(false)
StillLoading == TRUE
setIsLoadingFinally == FALSE

\* ensureModelsDirectory after RNFS.exists: if (!exists) await RNFS.mkdir;
\* the position the caller goes to, done when the root is there and mkdir
\* when it is not
MkdirAnyway(exists, done, mkdir) == mkdir
AfterExists(exists, done, mkdir) == IF exists THEN done ELSE mkdir

\* ensureModelsDirectory: RNFS.exists(modelsDir) has answered
ScanExists ==
  /\ scanPc = "exists"
  /\ scanPc' = AfterExists(dirExists, "readDir", "mkdir")
  /\ rootExisted' = dirExists
  /\ UNCHANGED <<others, dirExists, fs, catalog, isLoading, nextId, listing>>
  /\ UNCHANGED <<dlVars, delVars, chat>>

\* ensureModelsDirectory: RNFS.mkdir(modelsDir) creates the root
ScanMkdirOk ==
  /\ scanPc = "mkdir"
  /\ dirExists' = TRUE
  /\ scanPc' = "readDir"
  /\ UNCHANGED rootExisted
  /\ UNCHANGED <<others, fs, catalog, isLoading, nextId, listing>>
  /\ UNCHANGED <<dlVars, delVars, chat>>

\* RNFS.mkdir rejects: getDownloadedModels throws, loadModels logs it and
\* its finally clears isLoading
ScanMkdirFail ==
  /\ scanPc = "mkdir"
  /\ scanPc' = "threw"
  /\ rootExisted' = "unknown"
  /\ isLoading' = setIsLoadingFinally
  /\ UNCHANGED <<others, dirExists, fs, catalog, nextId, listing>>
  /\ UNCHANGED <<dlVars, delVars, chat>>

\* RNFS.readDir answers with the entries of the root as they are now
ScanReadDirOk ==
  /\ scanPc = "readDir"
  /\ listing' = ReadDir
  /\ scanPc' = "apply"
  /\ rootExisted' = "unknown"
  /\ UNCHANGED <<others, dirExists, fs, catalog, isLoading, nextId>>
  /\ UNCHANGED <<dlVars, delVars, chat>>

\* RNFS.readDir rejects: getDownloadedModels catches, logs and returns []
ScanReadDirFail ==
  /\ scanPc = "readDir"
  /\ listing' = ReturnedOnError
  /\ scanPc' = "caught"
  /\ rootExisted' = "unknown"
  /\ UNCHANGED <<others, dirExists, fs, catalog, isLoading, nextId>>
  /\ UNCHANGED <<dlVars, delVars, chat>>

\* the continuation: the records are built, setDownloadedModels(models),
\* setIsLoading(false)
ScanApply ==
  /\ scanPc \in {"apply", "caught"}
  /\ LET models == ScanModels(listing, nextId)
     IN  /\ catalog' = models
         /\ nextId' = nextId + Len(models)
  /\ isLoading' = setIsLoadingFinally
  /\ listing' = <<>>
  /\ scanPc' = "done"
  /\ UNCHANGED rootExisted
  /\ UNCHANGED <<others, dirExists, fs>>
  /\ UNCHANGED <<dlVars, delVars, chat>>

(* ------------- download: handleDownload / downloadGGUFModel ------------ *)
\* the URLs the user may have typed: empty, ending in .gguf, not ending in .gguf
Urls == { <<>>, <<"u">> \o Ext, <<"u">> }

\* the model names the user may have typed
ModelNames == ReqNames

\* URLs with a path: a valid one and one without the extension
TypedUrls == { <<"h", "/", "m">> \o Ext, <<"h", "/", "m">> }

\* the Download button is rendered only while downloading is false; a state
\* update made by a press handler is rendered before the next press arrives
ButtonShown == ~downloading

\* the button's disabled prop: disabled={downloading || !url}
ButtonEnabled(url) == ~(downloading \/ url = <<>>)

\* a press reaches handleDownload: the button is rendered and not disabled
PressableWithUrl(url) == url # <<>>
Pressable(url) == ButtonShown /\ ButtonEnabled(url)

\* the collision check of downloadGGUFModel: RNFS.exists(destPath)
UnsanitizedCollisionCheck(modelName) == Exists(DestPath(modelName))
CollisionCheck(modelName) == Exists(DestPath(SanitizedModelName(modelName)))

\* the Model downloadGGUFModel returns after RNFS.stat
SizelessDownloadedModel(modelName, id, statSize) ==
  [id |-> id, name |-> modelName,
   path |-> DestPath(SanitizedModelName(modelName)), size |-> 0]
DownloadedModel(modelName, id, statSize) ==
  [id |-> id, name |-> modelName,
   path |-> DestPath(SanitizedModelName(modelName)), size |-> statSize]

\* setDownloading(busy) of the downloader on the screen; another caller has
\* no part in its state
StaysBusy(d, busy) == IF d = "ui" THEN TRUE ELSE downloading
Busy(d, busy) == IF d = "ui" THEN busy ELSE downloading

\* handleModelDownloaded: setDownloadedModels(prev => [...prev, model])
PrependModel(prevModels, model) == <<model>> \o prevModels
handleModelDownloaded(prevModels, model) == Append(prevModels, model)

\* downloadGGUFModel resolves with model: handleDownload alerts success,
\* calls onModelDownloaded and its finally clears downloading
Resolve(d, model) ==
  /\ pc' = [pc EXCEPT ![d] = "done"]
  /\ reqName' = [reqName EXCEPT ![d] = <<>>]
  /\ catalog' = handleModelDownloaded(catalog, model)
  /\ downloading' = Busy(d, FALSE)

\* downloadGGUFModel rejects with e: handleDownload alerts the error and its
\* finally clears downloading
Reject(d, e) ==
  /\ pc' = [pc EXCEPT ![d] = "failed"]
  /\ err' = [err EXCEPT ![d] = e]
  /\ reqName' = [reqName EXCEPT ![d] = <<>>]
  /\ downloading' = Busy(d, FALSE)

\* handleDownload's tests of the URL: !url, !url.endsWith('.gguf')
EmptyUrlOnly(url) == url = <<>>
InvalidUrl(url) == url = <<>> \/ ~EndsWith(url, Ext)

\* caller d has no call in flight
Settled(d) == pc[d] \in {"idle", "done", "failed", "invalid"}

\* handleDownload up to its first await: validates the URL, sets downloading
\* and calls downloadGGUFModel, which awaits RNFS.exists(modelsDir)
StartDownload(d, url, modelName) ==
  /\ nCalls < MaxCalls
  /\ nCalls' = nCalls + 1
  /\ IF InvalidUrl(url)
       THEN /\ pc' = [pc EXCEPT ![d] = "invalid"]
            /\ err' = [err EXCEPT ![d] = "url"]
            /\ reqName' = [reqName EXCEPT ![d] = <<>>]
            /\ UNCHANGED downloading
       ELSE /\ pc' = [pc EXCEPT ![d] = "ensure"]
            /\ err' = [err EXCEPT ![d] = "none"]
            /\ reqName' = [reqName EXCEPT ![d] = NameArg(modelName)]
            /\ downloading' = Busy(d, TRUE)
  /\ UNCHANGED <<dirExists, fs, catalog, nextId, pos, fd, contentLength, progress>>
  /\ UNCHANGED <<scanVars, delVars, chat>>

\* the user presses the Download button
Press(url, modelName) ==
  /\ Pressable(url)
  /\ StartDownload("ui", url, modelName)

\* downloadGGUFModel is called while another call is in flight
Overlap(url, modelName) ==
  /\ Settled("other")
  /\ \E e \in Calls : ~Settled(e)
  /\ StartDownload("other", url, modelName)

\* ensureModelsDirectory: RNFS.exists(modelsDir) has answered
DlEnsureExists(d) ==
  /\ pc[d] = "ensure"
  /\ pc' = [pc EXCEPT ![d] = AfterExists(dirExists, "check", "mkdir")]
  /\ UNCHANGED <<dirExists, fs, catalog, nextId, reqName, err, pos, fd,
                 contentLength, progress, downloading>>
  /\ UNCHANGED <<scanVars, delVars, nCalls, chat>>

\* ensureModelsDirectory: RNFS.mkdir(modelsDir) creates the root
DlMkdirOk(d) ==
  /\ pc[d] = "mkdir"
  /\ dirExists' = TRUE
  /\ pc' = [pc EXCEPT ![d] = "check"]
  /\ UNCHANGED <<fs, catalog, nextId, reqName, err, pos, fd, contentLength, progress,
                 downloading>>
  /\ UNCHANGED <<scanVars, delVars, nCalls, chat>>

\* RNFS.mkdir rejects: downloadGGUFModel rejects before its try block
DlMkdirFail(d) ==
  /\ pc[d] = "mkdir"
  /\ Reject(d, "mkdir")
  /\ UNCHANGED <<dirExists, fs, catalog, nextId, pos, fd, contentLength, progress>>
  /\ UNCHANGED <<scanVars, delVars, nCalls, chat>>

\* the collision error is thrown before the try block is entered: it leaves
\* downloadGGUFModel without passing through the catch block
CollisionThrowInTry(d) ==
  /\ pc' = [pc EXCEPT ![d] = "cleanupExists"]
  /\ err' = [err EXCEPT ![d] = "collision"]
  /\ UNCHANGED <<reqName, downloading>>
CollisionThrow(d) == Reject(d, "collision")

\* RNFS.exists(destPath) has answered: either the collision error is thrown
\* or RNFS.downloadFile is called
DlCheck(d) ==
  /\ pc[d] = "check"
  /\ IF CollisionCheck(reqName[d])
       THEN /\ CollisionThrow(d)
       ELSE /\ pc' = [pc EXCEPT ![d] = "transfer"]
            /\ UNCHANGED <<err, reqName, downloading>>
  /\ UNCHANGED <<dirExists, fs, catalog, nextId, pos, fd, contentLength, progress>>
  /\ UNCHANGED <<scanVars, delVars, nCalls, chat>>

\* the content lengths a response may declare: the length of the body, zero,
\* or -1 when the server declares none
ContentLengths == {BodyLen, 0, -1}

\* the content length of a server that declares the length of its body
DeclaredLengths == {BodyLen}

\* res.bytesWritten / res.contentLength, kept as the pair of its operands
Ratio(bytesWritten, length) == <<bytesWritten, length>>

\* the number a ratio evaluates to: x/0 is NaN for x = 0 and Infinity for x > 0
IsNaN(f) == f[2] = 0 /\ f[1] = 0
IsInfinity(f) == f[2] = 0 /\ f[1] > 0
\* the ratio with a positive denominator
Normal(f) == IF f[2] < 0 THEN <<0 - f[1], 0 - f[2]>> ELSE f
\* f <= g as numbers; false when either is NaN
Leq(f, g) ==
  /\ ~IsNaN(f)
  /\ ~IsNaN(g)
  /\ \/ IsInfinity(g)
     \/ /\ ~IsInfinity(f)
        /\ Normal(f)[1] * Normal(g)[2] <= Normal(g)[1] * Normal(f)[2]
\* f = g as numbers
Same(f, g) == Leq(f, g) /\ Leq(g, f)

\* the directory exists: the platform's base directory, the root once it
\* is created, or a subdirectory of the root
DirExists(dir) ==
  \/ dir = <<<<"base">>>>
  \/ dir = CanonicalPath(getModelsDirectory) /\ dirExists
  \/ \E i \in 1..Len(others) :
       ~others[i].isFile /\ CanonicalPath(others[i].path) = dir

\* the transfer has the response headers and opens toFile for writing:
\* created empty, or truncated; the directory of toFile has to exist
TransferOpen(d, length) ==
  /\ pc[d] = "transfer"
  /\ fd[d] = "none"
  /\ DirExists(ParentDir(Dest(d)))
  /\ fd' = [fd EXCEPT ![d] = "live"]
  /\ contentLength' = [contentLength EXCEPT ![d] = length]
  /\ UNCHANGED progress
  /\ fs' = [fs EXCEPT ![Dest(d)] = [exists |-> TRUE, size |-> 0, valid |-> FALSE]]
  /\ UNCHANGED <<dirExists, catalog, nextId, pc, reqName, err, pos,
                 downloading>>
  /\ UNCHANGED <<scanVars, delVars, nCalls, chat>>

\* the promise of RNFS.downloadFile is pending and its progress listener is
\* subscribed
ListeningAlways(d) == TRUE
Listening(d) == pc[d] = "transfer" /\ fd[d] # "none"

\* the transfer writes n more bytes of the body at its own offset and emits
\* a progress event: the callback gets bytesWritten / contentLength
TransferChunk(d, n) ==
  /\ Listening(d)
  /\ pos[d] + n <= BodyLen
  /\ pos' = [pos EXCEPT ![d] = pos[d] + n]
  /\ progress' = [progress EXCEPT ![d] = Ratio(pos[d] + n, contentLength[d])]
  /\ UNCHANGED contentLength
  /\ fs' = IF fd[d] = "live"
             THEN [fs EXCEPT ![Dest(d)] =
                     [exists |-> TRUE, size |-> Max(fs[Dest(d)].size, pos[d] + n),
                      valid |-> FALSE]]
             ELSE fs
  /\ UNCHANGED <<dirExists, catalog, nextId, pc, reqName, err, fd,
                 downloading>>
  /\ UNCHANGED <<scanVars, delVars, nCalls, chat>>

\* the whole body is written and no other transfer is still writing the file
BodyWritten(d) ==
  /\ fd[d] = "live"
  /\ fs[Dest(d)].size = BodyLen
  /\ \A e \in Calls \ {d} :
       ~(fd[e] = "live" /\ Dest(e) = Dest(d))

\* the promise of RNFS.downloadFile resolves with a status code; the
\* continuation either throws on the status or calls RNFS.stat
TransferFinish(d, statusCode) ==
  /\ pc[d] = "transfer"
  /\ fd[d] # "none"
  /\ pos[d] = BodyLen
  /\ fs' = IF fd[d] = "live"
             THEN [fs EXCEPT ![Dest(d)].valid = (statusCode = StatusOK /\ BodyWritten(d))]
             ELSE fs
  /\ IF statusCode # StatusOK
       THEN /\ pc' = [pc EXCEPT ![d] = "cleanupExists"]
            /\ err' = [err EXCEPT ![d] = "status"]
       ELSE /\ pc' = [pc EXCEPT ![d] = "stat"]
            /\ UNCHANGED err
  /\ fd' = FdClose(d)
  /\ pos' = [pos EXCEPT ![d] = 0]
  /\ contentLength' = [contentLength EXCEPT ![d] = 0]
  /\ progress' = [progress EXCEPT ![d] = NoProgress]
  /\ UNCHANGED <<dirExists, catalog, nextId, reqName, downloading>>
  /\ UNCHANGED <<scanVars, delVars, nCalls, chat>>

\* the promise of RNFS.downloadFile rejects (transport or write error); the
\* catch block calls RNFS.exists(destPath)
TransferFail(d) ==
  /\ pc[d] = "transfer"
  /\ pc' = [pc EXCEPT ![d] = "cleanupExists"]
  /\ err' = [err EXCEPT ![d] = "transport"]
  /\ fd' = FdClose(d)
  /\ pos' = [pos EXCEPT ![d] = 0]
  /\ contentLength' = [contentLength EXCEPT ![d] = 0]
  /\ progress' = [progress EXCEPT ![d] = NoProgress]
  /\ UNCHANGED <<dirExists, fs, catalog, nextId, reqName, downloading>>
  /\ UNCHANGED <<scanVars, delVars, nCalls, chat>>

\* RNFS.stat(destPath) answers: the record is built and returned
DlStatOk(d) ==
  /\ pc[d] = "stat"
  /\ Exists(Dest(d))
  /\ Resolve(d, DownloadedModel(reqName[d], nextId + 1, fs[Dest(d)].size))
  /\ nextId' = nextId + 1
  /\ fd' = FdSettle(d)
  /\ UNCHANGED <<dirExists, fs, err, pos, contentLength, progress>>
  /\ UNCHANGED <<scanVars, delVars, nCalls, chat>>

\* RNFS.stat(destPath) rejects (the file is gone, or an I/O error); the
\* catch block calls RNFS.exists(destPath)
DlStatFail(d) ==
  /\ pc[d] = "stat"
  /\ pc' = [pc EXCEPT ![d] = "cleanupExists"]
  /\ err' = [err EXCEPT ![d] = "stat"]
  /\ UNCHANGED <<dirExists, fs, catalog, nextId, reqName, pos, fd,
                 contentLength, progress, downloading>>
  /\ UNCHANGED <<scanVars, delVars, nCalls, chat>>

\* catch block: fileExists, the answer of RNFS.exists(destPath)
NoCleanup(d) == FALSE
FileExists(d) == Exists(Dest(d))

\* catch block: RNFS.exists(destPath) has answered; without a file the
\* error is rethrown, with one RNFS.unlink is called
DlCleanupExists(d) ==
  /\ pc[d] = "cleanupExists"
  /\ IF FileExists(d)
       THEN /\ pc' = [pc EXCEPT ![d] = "cleanupUnlink"]
            /\ UNCHANGED <<err, reqName, downloading, fd>>
       ELSE /\ Reject(d, err[d])
            /\ fd' = FdSettle(d)
  /\ UNCHANGED <<dirExists, fs, catalog, nextId, pos, contentLength, progress>>
  /\ UNCHANGED <<scanVars, delVars, nCalls, chat>>

\* catch block: RNFS.unlink(destPath) removed the file; the error is rethrown
DlCleanupUnlinkOk(d) ==
  /\ pc[d] = "cleanupUnlink"
  /\ Exists(Dest(d))
  /\ fs' = FsUnlink(Dest(d))
  /\ fd' = [FdUnlink(Dest(d)) EXCEPT ![d] = "none"]
  /\ Reject(d, err[d])
  /\ UNCHANGED <<dirExists, catalog, nextId, pos, contentLength, progress>>
  /\ UNCHANGED <<scanVars, delVars, nCalls, chat>>

\* catch block: RNFS.unlink(destPath) rejects (the file is gone, or an I/O
\* error); the unlink error leaves the catch block instead of the cause
DlCleanupUnlinkFail(d) ==
  /\ pc[d] = "cleanupUnlink"
  /\ Reject(d, "unlink")
  /\ fd' = FdSettle(d)
  /\ UNCHANGED <<dirExists, fs, catalog, nextId, pos, contentLength, progress>>
  /\ UNCHANGED <<scanVars, delVars, nCalls, chat>>

(* ------------- removal: handleModelDelete / deleteGGUFModel ------------ *)
\* prevModels.filter((m) => m.id !== model.id)
KeepById(prevModels, model) == SelectSeq(prevModels, LAMBDA m : m.id = model.id)
RemoveById(prevModels, model) == SelectSeq(prevModels, LAMBDA m : m.id # model.id)

\* the catalog after deleteGGUFModel settled: the filter runs in the try
\* block, after the await, so only when deleteGGUFModel resolved
FilterAlways(deleted, model) == RemoveById(catalog, model)
CatalogAfterDelete(deleted, model) ==
  IF deleted THEN RemoveById(catalog, model) ELSE catalog

\* the user confirms the deletion of the i-th model of the rendered list;
\* handleModelDelete calls deleteGGUFModel, which awaits RNFS.exists
DeleteStart(i) ==
  /\ delPc = "idle"
  /\ ~isLoading
  /\ i \in 1..Len(catalog)
  /\ delModel' = catalog[i]
  /\ delPc' = "exists"
  /\ delOutcome' = "none"
  /\ UNCHANGED <<dirExists, fs, catalog, nextId>>
  /\ UNCHANGED <<scanVars, dlVars, chat>>

\* handleModelDelete has finished: how deleteGGUFModel settled is kept
DelSettle(outcome) ==
  /\ delPc' = "idle"
  /\ delOutcome' = outcome
  /\ delModel' = NoModel

\* RNFS.exists(modelPath) has answered: without a file deleteGGUFModel
\* throws, with one RNFS.unlink is called
DelExists ==
  /\ delPc = "exists"
  /\ IF Exists(delModel.path)
       THEN /\ delPc' = "unlink"
            /\ UNCHANGED <<delOutcome, delModel, catalog>>
       ELSE /\ DelSettle("threwNotFound")
            /\ catalog' = CatalogAfterDelete(FALSE, delModel)
  /\ UNCHANGED <<dirExists, fs, nextId>>
  /\ UNCHANGED <<scanVars, dlVars, chat>>

\* RNFS.unlink(modelPath) removed the file: deleteGGUFModel returns true
\* and handleModelDelete filters the catalog
DelUnlinkOk ==
  /\ delPc = "unlink"
  /\ Exists(delModel.path)
  /\ fs' = FsUnlink(delModel.path)
  /\ fd' = FdUnlink(delModel.path)
  /\ DelSettle("returnedTrue")
  /\ catalog' = CatalogAfterDelete(TRUE, delModel)
  /\ UNCHANGED <<dirExists, nextId>>
  /\ UNCHANGED <<chat, scanVars, pc, reqName, err, pos, contentLength, progress,
                 downloading, nCalls>>

\* RNFS.unlink(modelPath) rejects (the file is gone, or an I/O error):
\* deleteGGUFModel rethrows and handleModelDelete logs it
DelUnlinkFail ==
  /\ delPc = "unlink"
  /\ DelSettle(IF Exists(delModel.path) THEN "threwIO" ELSE "threwGone")
  /\ catalog' = CatalogAfterDelete(FALSE, delModel)
  /\ UNCHANGED <<dirExists, fs, nextId>>
  /\ UNCHANGED <<scanVars, dlVars, chat>>

(* --------------------------- chat: sendMessage ------------------------- *)
appVars == <<dirExists, fs, catalog, nextId, scanVars, dlVars, delVars>>

\* the user edits the chat input: onChangeText={setInputText}
ChatType(text) ==
  /\ text # chat.inputText
  /\ chat' = [chat EXCEPT !.inputText = text]
  /\ UNCHANGED appVars

\* the user presses the send button: onPress={sendMessage}
ChatSend ==
  /\ ~SendDisabled(chat)
  /\ Sent(chat) < MaxSends
  /\ chat' = sendMessage(chat)
  /\ UNCHANGED appVars

\* 1500 ms after a send its timer fires
ChatReply ==
  /\ chat.timers # <<>>
  /\ chat' = TimerCallback(chat)
  /\ UNCHANGED appVars

(* ----------------------------- environment ----------------------------- *)
\* something other than the app removes a complete artifact from the root
ExternalRemove(p) ==
  /\ Exists(p)
  /\ fs[p].valid
  /\ fs' = FsUnlink(p)
  /\ fd' = FdUnlink(p)
  /\ UNCHANGED <<dirExists, catalog, nextId>>
  /\ UNCHANGED <<chat, scanVars, delVars, pc, reqName, err, pos, contentLength, progress,
                 downloading, nCalls>>

(* ---------------------------- specification ---------------------------- *)
Scan ==
  \/ ScanExists
  \/ ScanMkdirOk
  \/ ScanMkdirFail
  \/ ScanReadDirOk
  \/ ScanReadDirFail
  \/ ScanApply

Download(d, lengths) ==
  \/ DlEnsureExists(d)
  \/ DlMkdirOk(d)
  \/ DlMkdirFail(d)
  \/ DlCheck(d)
  \/ \E length \in lengths : TransferOpen(d, length)
  \/ \E n \in 1..BodyLen : TransferChunk(d, n)
  \/ \E statusCode \in StatusCodes : TransferFinish(d, statusCode)
  \/ TransferFail(d)
  \/ DlStatOk(d)
  \/ DlStatFail(d)
  \/ DlCleanupExists(d)
  \/ DlCleanupUnlinkOk(d)
  \/ DlCleanupUnlinkFail(d)

Delete ==
  \/ \E i \in 1..Len(catalog) : DeleteStart(i)
  \/ DelExists
  \/ DelUnlinkOk
  \/ DelUnlinkFail

\* the app as its screens drive it: one download at a time
Next ==
  \/ Scan
  \/ \E url \in Urls : \E modelName \in ModelNames : Press(url, modelName)
  \/ \E d \in Calls : Download(d, DeclaredLengths)
  \/ Delete
  \/ \E p \in Paths : ExternalRemove(p)

Spec == Init /\ [][Next]_vars

\* downloadGGUFModel called by a second caller while a call is in flight
NextCalls ==
  \/ Scan
  \/ \E url \in Urls : \E modelName \in ModelNames : Press(url, modelName)
  \/ \E url \in Urls : \E modelName \in ModelNames : Overlap(url, modelName)
  \/ \E d \in Calls : Download(d, DeclaredLengths)

SpecCalls == Init /\ [][NextCalls]_vars

\* the downloader alone, with servers that declare any content length
NextProgress ==
  \/ \E url \in Urls : \E modelName \in ModelNames : Press(url, modelName)
  \/ \E d \in Calls : Download(d, ContentLengths)

SpecProgress == Init /\ [][NextProgress]_vars

\* the downloader alone, with any model name typed, or none
NextNames ==
  \/ \E url \in TypedUrls : \E modelName \in TypedNames : Press(url, modelName)
  \/ \E d \in Calls : Download(d, DeclaredLengths)

SpecNames == Init /\ [][NextNames]_vars

\* the chat tab of a model; every timer that was set fires
NextChat ==
  \/ \E text \in Texts : ChatType(text)
  \/ ChatSend
  \/ ChatReply

SpecChat == Init /\ [][NextChat]_vars /\ WF_vars(ChatReply)

\* the startup scan alone, over roots that hold other entries too
NextScan == Scan

SpecScan == InitScan /\ [][NextScan]_vars

\* the startup of the app with the downloader in use; every native call of
\* the scan is answered, with a result or with an error
NextStartup ==
  \/ Scan
  \/ \E url \in Urls : \E modelName \in ModelNames : Press(url, modelName)
  \/ \E d \in Calls : Download(d, DeclaredLengths)

SpecStartup == Init /\ [][NextStartup]_vars /\ WF_vars(Scan)

(* ------------------------------- claims -------------------------------- *)
\* call d is between its collision check and its settlement
InFlight(d) == pc[d] \in {"transfer", "stat", "cleanupExists", "cleanupUnlink"}

\* call d rejects in this step, out of the catch block of downloadGGUFModel
RejectsAfterCheck(d) ==
  /\ pc[d] \in {"cleanupExists", "cleanupUnlink"}
  /\ pc'[d] = "failed"

Consistent ==
  /\ \A i \in 1..Len(catalog) : Exists(catalog[i].path)
  /\ \A p \in Paths : Exists(p) => \E i \in 1..Len(catalog) : catalog[i].path = p

\* a download or a removal completes in this step
OperationCompletes ==
  \/ \E d \in Calls : ~Settled(d) /\ pc'[d] \in {"done", "failed"}
  \/ delPc # "idle" /\ delPc' = "idle"

\* C2: once the startup scan has been applied, the catalog and the artifact
\* root agree at the completion of every download and every removal.
C2_ConsistentAtCompletion ==
  [][(OperationCompletes /\ ~isLoading') => Consistent']_vars

\* C3: a file under a final name is never partially written: it is absent or
\* complete.
C3_NeverPartial == \A p \in Paths : fs[p].exists => fs[p].valid

\* the last record of a catalog
Last(models) == models[Len(models)]

\* C4: when a download resolves, a file exists under the normalized
\* destination name, the returned record's path is that file's path and the
\* returned record's size is that file's size.
C4_SuccessLeavesTheFile ==
  [][\A d \in Calls :
       (pc[d] = "stat" /\ pc'[d] = "done") =>
         LET model == Last(catalog')
             fileName == BaseName(model.path)
         IN  /\ EndsWith(fileName, Ext)
             /\ fileName \in {reqName[d], reqName[d] \o Ext}
             /\ model.path = getModelsDirectory \o <<"/">> \o fileName
             /\ model.path \in Paths
             /\ fs'[model.path].exists
             /\ model.size = fs'[model.path].size]_vars

\* a download has resolved and its whole file is in the root
C4_Witness ==
  /\ \E d \in Calls : pc[d] = "done"
  /\ Len(catalog) > 0
  /\ Exists(Last(catalog).path)
  /\ Last(catalog).size = BodyLen
  /\ fs[Last(catalog).path].size = BodyLen

C6_SecondCallCollides ==
  \A d, e \in Calls :
    (d # e /\ InFlight(d) /\ InFlight(e)) => Dest(d) # Dest(e)

\* C7: deleteGGUFModel never throws for a path at which no file exists.
C7_NotFoundIsNotRaised == delOutcome # "threwNotFound"

\* C8: when the removal of a record whose file is gone completes, the catalog
\* no longer contains that record.
C8_GoneRecordIsRemoved ==
  [][(delPc = "exists" /\ ~Exists(delModel.path) /\ delPc' = "idle") =>
       \A i \in 1..Len(catalog') : catalog'[i].id # delModel.id]_vars

\* C9: a successful removal deletes the file at the record's path and removes
\* from the catalog exactly the record with the matching id, keeping the
\* others unchanged and in order; removing an id that is not in the catalog,
\* as the removed one is afterwards, leaves the catalog unchanged.
C9_RemovesExactlyTheRecord ==
  [][(delPc = "unlink" /\ delOutcome' = "returnedTrue") =>
       /\ ~fs'[delModel.path].exists
       /\ \A i \in 1..Len(catalog') : catalog'[i].id # delModel.id
       /\ catalog' = SelectSeq(catalog, LAMBDA m : m # delModel)
       /\ Len(catalog') = Len(catalog) - 1
       /\ RemoveById(catalog', delModel) = catalog']_vars

\* a removal has succeeded and another record is still in the catalog
C9_Witness ==
  /\ delOutcome = "returnedTrue"
  /\ Len(catalog) > 0
  /\ \E p \in Paths : ~Exists(p)

\* C10: when the file exists and its deletion fails, deleteGGUFModel rejects
\* with the I/O error, the file is still there and the catalog is unchanged
\* and still holds the record.
C10_FailedDeleteChangesNothing ==
  [][(delPc = "unlink" /\ Exists(delModel.path) /\ delPc' = "idle"
        /\ fs'[delModel.path].exists) =>
       /\ delOutcome' = "threwIO"
       /\ fs' = fs
       /\ catalog' = catalog
       /\ \E i \in 1..Len(catalog') : catalog'[i] = delModel]_vars

\* a deletion has failed with an I/O error and the record and its file remain
C10_Witness ==
  /\ delOutcome = "threwIO"
  /\ \E i \in 1..Len(catalog) : Exists(catalog[i].path)

\* call d settles in this step, with a record or with an error
Resolves(d) == ~Settled(d) /\ pc'[d] = "done"
Fails(d) == ~Settled(d) /\ pc'[d] \in {"failed", "invalid"}

\* C11: a download that resolves appends one record, its own, to the end of
\* the catalog and leaves the earlier records as they were; a download that
\* fails leaves the catalog unchanged; the catalog grows in no other step
\* than a resolving download or the startup scan.
C11_AppendedOnceOnSuccess ==
  [][/\ \A d \in Calls :
          Resolves(d) =>
            /\ Len(catalog') = Len(catalog) + 1
            /\ SubSeq(catalog', 1, Len(catalog)) = catalog
            /\ Last(catalog').path = Dest(d)
            /\ Last(catalog').name = reqName[d]
     /\ \A d \in Calls : Fails(d) => catalog' = catalog
     /\ (Len(catalog') > Len(catalog)) =>
          \/ \E d \in Calls : Resolves(d)
          \/ scanPc = "apply"]_vars

\* the only download of the run has resolved after the scan had put one
\* record in the catalog: the scan's record is first, the download's second
C11_Witness ==
  /\ pc["ui"] = "done"
  /\ nCalls = 1
  /\ Len(catalog) = 2
  /\ catalog[1].id = 1
  /\ catalog[2].id = 2
  /\ nextId = 2

\* C12: no two records of the catalog have the same path.
C12_PathsAreUnique ==
  \A i, j \in 1..Len(catalog) :
    catalog[i].path = catalog[j].path => i = j

\* C13: every record of the catalog carries the size of a completely
\* written file, never a size sampled while the file was being written.
C13_SizeAfterWrite ==
  \A i \in 1..Len(catalog) : catalog[i].size = BodyLen

\* progressCallback of call d is invoked in this step
CallbackInvoked(d) == progress'[d] # progress[d] /\ progress'[d] # NoProgress

\* the number lies in [0.0, 1.0]
InUnitInterval(f) == Leq(Ratio(0, 1), f) /\ Leq(f, Ratio(1, 1))

\* C14: every value passed to the progress callback lies in [0.0, 1.0] and is
\* not less than the value passed before it in the same download, whatever
\* content length the transfer reports.
C14_ProgressMonotoneInUnit ==
  [][\A d \in Calls :
       CallbackInvoked(d) =>
         /\ InUnitInterval(progress'[d])
         /\ progress[d] # NoProgress => Leq(progress[d], progress'[d])]_vars

\* C15: in a download of a body of length L every chunk makes the callback
\* receive the cumulative fraction written so far over L, the last value
\* received by a successful download is 1.0, and the returned record's size
\* is L.
C15_CumulativeFractions ==
  [][\A d \in Calls :
       /\ CallbackInvoked(d) => Same(progress'[d], Ratio(pos'[d], BodyLen))
       /\ (pc[d] = "transfer" /\ pc'[d] = "stat") => Same(progress[d], Ratio(1, 1))
       /\ Resolves(d) => Last(catalog').size = BodyLen]_vars

ScanBuilds == scanPc \in {"apply", "caught"} /\ scanPc' = "done"

\* the entries of the listing that are regular files named *.gguf
ArtifactFiles(files) ==
  SelectSeq(files, LAMBDA f : f.isFile /\ EndsWith(f.name, Ext))

\* C17: a scan returns exactly one record for each regular file whose name
\* ends with the artifact extension, in directory order, and no record for
\* any other entry.
C17_OneRecordPerArtifactFile ==
  [][ScanBuilds =>
       LET wanted == ArtifactFiles(listing)
       IN  /\ Len(catalog') = Len(wanted)
           /\ \A i \in 1..Len(catalog') : catalog'[i].path = wanted[i].path]_vars

\* C18: a scan emits no record for an entry that is not a regular file.
C18_DirectoriesSkipped ==
  [][ScanBuilds =>
       \A i \in 1..Len(listing) :
         ~listing[i].isFile =>
           \A j \in 1..Len(catalog') : catalog'[j].path # listing[i].path]_vars

\* the file name without its trailing extension
StripTrailingExt(name) == SubSeq(name, 1, Len(name) - Len(Ext))

\* C19: the name of the record a scan builds for a file named *.gguf is the
\* file name with the trailing extension removed and nothing else changed.
C19_NameIsStripped ==
  [][ScanBuilds =>
       \A i \in 1..Len(listing) :
         EndsWith(listing[i].name, Ext) =>
           \A j \in 1..Len(catalog') :
             catalog'[j].path = listing[i].path =>
               catalog'[j].name = StripTrailingExt(listing[i].name)]_vars

\* C20: the record a download resolves with agrees in name, path and size
\* with the record a scan run right after it builds for the same file, whose
\* name is the destination file name without the extension.
C20_DownloadAgreesWithScan ==
  [][\A d \in Calls :
       Resolves(d) =>
         LET model == Last(catalog')
             file == [name |-> BaseName(model.path), path |-> model.path,
                      size |-> fs'[model.path].size, isFile |-> TRUE]
             scanned == ScanModel(file, model.id)
         IN  /\ model.name = StripTrailingExt(BaseName(model.path))
             /\ model.name = scanned.name
             /\ model.path = scanned.path
             /\ model.size = scanned.size]_vars

\* requested names beyond those the calls of the model pass: with the
\* extension twice at the end, and with it in the middle only
NameSamples ==
  ReqNames \cup { <<"a">> \o Ext \o Ext, <<"a">> \o Ext \o <<"b">>, <<>> }

\* what the normalization of a requested name has to give
NormalizedFrom(modelName, fileName) ==
  /\ EndsWith(fileName, Ext)
  /\ EndsWith(modelName, Ext) => fileName = modelName
  /\ ~EndsWith(modelName, Ext) =>
       /\ fileName = modelName \o Ext
       /\ StripTrailingExt(fileName) = modelName
  /\ SanitizedModelName(fileName) = fileName

\* C21: the normalized destination name ends with the extension, which is
\* appended when the requested name lacks it and left alone when it is
\* there, and normalizing a normalized name returns it unchanged; this holds
\* for the destination of every pending call.
C21_NormalizedOnce ==
  /\ \A modelName \in NameSamples :
       NormalizedFrom(modelName, SanitizedModelName(modelName))
  /\ \A d \in Calls :
       ~Settled(d) => NormalizedFrom(reqName[d], BaseName(Dest(d)))

\* one call has written the file of a name requested with the extension,
\* after another wrote the file of a name requested without it
C21_Witness ==
  /\ pc["ui"] = "transfer"
  /\ reqName["ui"] = <<"a">> \o Ext
  /\ Exists(DestPath(<<"a">> \o Ext))
  /\ Exists(DestPath(<<"b">> \o Ext))
  /\ Len(catalog) = 1
  /\ catalog[1].name = <<"b">>

C23_ListingFailureGivesEmpty ==
  [][/\ (scanPc = "readDir" /\ scanPc' \notin {"readDir", "apply"}) =>
          (scanPc' = "caught" /\ listing' = <<>>)
     /\ (scanPc = "caught" /\ scanPc' # "caught") =>
          (scanPc' = "done" /\ catalog' = <<>> /\ ~isLoading')]_vars

\* the scan has finished with an empty catalog over a root that holds all
\* the artifacts it held at the start, no download having been requested
C23_Witness ==
  /\ scanPc = "done"
  /\ catalog = <<>>
  /\ nCalls = 0
  /\ \A p \in Paths : Exists(p)

\* the scan stops in this step because a native call failed
ScanFails ==
  \/ scanPc = "mkdir" /\ scanPc' = "threw"
  \/ scanPc = "caught" /\ scanPc' = "done"

C26_RejectsWithTheCause ==
  [][\A d \in Calls :
       RejectsAfterCheck(d) =>
         /\ err[d] \in {"transport", "status", "stat"}
         /\ err'[d] = err[d]]_vars

\* C27: handleDownload starts a call only when the previous one has
\* settled, and while a call is pending the downloading flag is set.
C27_OneDownloadAtATime ==
  [][/\ ~Settled("ui") => downloading
     /\ nCalls' # nCalls => Settled("ui")]_vars

\* a second call has been started from the downloader after the first one
\* resolved
C27_Witness ==
  /\ nCalls = 2
  /\ pc["ui"] = "transfer"
  /\ downloading
  /\ \E i \in 1..Len(catalog) : EndsWith(catalog[i].name, Ext)

\* C29: the ids of the records of the catalog are pairwise distinct, so that
\* removing a record by its id removes that record and no other.
C29_IdsAreUnique ==
  /\ \A i, j \in 1..Len(catalog) : catalog[i].id = catalog[j].id => i = j
  /\ \A i \in 1..Len(catalog) :
       Len(RemoveById(catalog, catalog[i])) = Len(catalog) - 1

\* the scan has built two records and a download has appended a third
C29_Witness ==
  /\ Len(catalog) = 3
  /\ scanPc = "done"
  /\ pc["ui"] = "done"
  /\ catalog[3].id = 3

\* the path lies directly in the root getModelsDirectory names
InRoot(path) ==
  /\ Len(path) > Len(getModelsDirectory) + 1
  /\ SubSeq(path, 1, Len(getModelsDirectory) + 1) = getModelsDirectory \o <<"/">>

C31_CollisionKeepsTheFile ==
  [][\A d \in Calls :
       /\ (pc[d] = "check" /\ err'[d] = "collision") =>
            /\ pc'[d] = "failed"
            /\ fs[Dest(d)].exists
            /\ fs' = fs
            /\ fd' = fd
       /\ pc'[d] \in {"cleanupExists", "cleanupUnlink"} =>
            err'[d] # "collision"]_vars

\* the only call of the run was rejected with the collision error and every
\* artifact the root held at the start is still there, complete
C31_Witness ==
  /\ nCalls = 1
  /\ pc["ui"] = "failed"
  /\ err["ui"] = "collision"
  /\ \A p \in Paths : fs[p] = Whole

\* C32: applying the result of the startup scan discards no record of a file
\* that exists in the root: a record a download appended while the scan was
\* running is in the catalog afterwards.
C32_ScanKeepsDownloadedRecord ==
  [][ScanBuilds =>
       \A i \in 1..Len(catalog) :
         Exists(catalog[i].path) => \E j \in 1..Len(catalog') : catalog'[j] = catalog[i]]_vars

\* C33: the cleanup of a failed call deletes only a file that this call
\* wrote: when its RNFS.unlink removes the file at its destination, that file
\* is the one its own transfer opened, wrote and closed.
C33_CleanupDeletesOwnFile ==
  [][\A d \in Calls :
       (/\ pc[d] = "cleanupUnlink"
        /\ pc'[d] = "failed"
        /\ fs[Dest(d)].exists
        /\ ~fs'[Dest(d)].exists)
       => fd[d] = "closed"]_vars

\* the two ways handleDownload ends after the call it awaited has settled:
\* the success alert with one onModelDownloaded call, which appends one
\* record, or the error alert, with the catalog left alone
SuccessOutcome(d) ==
  /\ pc'[d] = "done"
  /\ err'[d] = "none"
  /\ Len(catalog') = Len(catalog) + 1
  /\ SubSeq(catalog', 1, Len(catalog)) = catalog
ErrorOutcome(d) ==
  /\ pc'[d] = "failed"
  /\ err'[d] # "none"
  /\ catalog' = catalog

\* C34: when a download started from the downloader settles, the downloading
\* flag is false afterwards and exactly one of the two outcomes has happened:
\* success with one onModelDownloaded call, or the error with none.
C34_SettlesOneWay ==
  [][(~Settled("ui") /\ pc'["ui"] \in {"done", "failed"}) =>
       /\ ~downloading'
       /\ SuccessOutcome("ui") \/ ErrorOutcome("ui")
       /\ ~(SuccessOutcome("ui") /\ ErrorOutcome("ui"))]_vars

\* both outcomes have happened: a first download from the downloader has
\* appended its record and a second one has failed on the status
C34_Witness ==
  /\ nCalls = 2
  /\ pc["ui"] = "failed"
  /\ err["ui"] = "status"
  /\ ~downloading
  /\ \E i \in 1..Len(catalog) : EndsWith(catalog[i].name, Ext)

\* C35: ensureModelsDirectory on a root that exists does not fail, calls no
\* mkdir and leaves the root and its files as they are; a call that
\* completes leaves the root in existence and the root stays, so a second
\* call in a row finds it and changes nothing.
C35_EnsureIsIdempotent ==
  [][/\ (scanPc = "exists" /\ scanPc' # "exists" /\ dirExists) =>
          (scanPc' = "readDir" /\ dirExists' /\ fs' = fs /\ others' = others)
     /\ \A d \in Calls :
          (pc[d] = "ensure" /\ pc'[d] # "ensure" /\ dirExists) =>
            (pc'[d] = "check" /\ dirExists' /\ fs' = fs /\ others' = others)
     /\ (scanPc \in {"exists", "mkdir"} /\ scanPc' = "readDir") => dirExists'
     /\ \A d \in Calls :
          (pc[d] \in {"ensure", "mkdir"} /\ pc'[d] = "check") => dirExists'
     /\ dirExists => dirExists']_vars

\* the scan and then a download have ensured a root that existed at the
\* start, and every artifact it held is still there
C35_Witness ==
  /\ scanPc = "readDir"
  /\ rootExisted = TRUE
  /\ pc["ui"] = "check"
  /\ \A p \in Paths : fs[p] = Whole

\* C36: when the model name is left empty, the call handleDownload makes
\* gets as its model name the last path segment of the URL without the
\* extension.
C36_NameFromUrl ==
  [][\A url \in TypedUrls :
       (Press(url, <<>>) /\ ~InvalidUrl(url)) =>
         reqName'["ui"] = ReplaceFirst(LastSegment(url), Ext)]_vars

\* C37: every file of the model lies directly in the artifact root and has
\* a name that ends with the extension, whatever names were requested.
C37_FilesInTheRoot ==
  \A p \in DOMAIN fs :
    fs[p].exists => (DirectlyInRoot(p) /\ EndsWith(LastSegment(p), Ext))

\* C38: in the chat tab a send that is accepted appends the user's message,
\* clears the input, sets isLoading and schedules one reply; the reply is
\* appended after it and clears isLoading, and it does arrive: every message
\* sent gets its one reply; sendMessage with blank text changes nothing and
\* schedules nothing.
C38_SendThenOneReply ==
  /\ [][/\ Len(chat'.timers) > Len(chat.timers) =>
             /\ chat'.messages = Append(chat.messages, NewMessage(chat.inputText))
             /\ Trim(chat.inputText) # <<>>
             /\ chat'.isLoading
             /\ Len(chat'.timers) = Len(chat.timers) + 1
        /\ Len(chat'.timers) < Len(chat.timers) =>
             /\ chat'.messages =
                  Append(chat.messages, ModelResponse(Head(chat.timers)))
             /\ chat.messages[Len(chat.messages)] = NewMessage(Head(chat.timers))
             /\ ~chat'.isLoading
             /\ Len(chat'.timers) = Len(chat.timers) - 1
        /\ chat'.messages # chat.messages =>
             Len(chat'.timers) # Len(chat.timers)]_vars
  /\ [](\A text \in Texts :
          Trim(text) = <<>> =>
            sendMessage([chat EXCEPT !.inputText = text]) =
              [chat EXCEPT !.inputText = text])
  /\ [](Replies(chat) + Len(chat.timers) = Sent(chat))
  /\ \A n \in 1..MaxSends :
       (Sent(chat) = n /\ chat.timers # <<>>)
         ~> (Sent(chat) = n /\ Replies(chat) = n /\ ~chat.isLoading)

\* a message typed between spaces was sent and answered, and the input
\* holds a space now
C38_Witness ==
  /\ chat.messages =
       <<Greeting, NewMessage(<<" ", "h", " ">>), ModelResponse(<<" ", "h", " ">>)>>
  /\ ~chat.isLoading
  /\ chat.timers = <<>>
  /\ chat.inputText = <<" ">>

\* C39: in the chat tab at most one reply is pending, and it is pending
\* exactly while isLoading is set; the list starts with the greeting and
\* then alternates between a message of the user and the reply to it.
C39_RepliesAlternate ==
  /\ Len(chat.timers) <= 1
  /\ chat.isLoading <=> (chat.timers # <<>>)
  /\ \A i \in 1..Len(chat.messages) :
       chat.messages[i].isUser <=> (i % 2 = 0)
  /\ \A i \in 2..Len(chat.messages) :
       ~chat.messages[i].isUser =>
         chat.messages[i] = ModelResponse(chat.messages[i - 1].text)

\* a second message has been sent after the reply to the first arrived,
\* and its reply is pending
C39_Witness ==
  /\ Len(chat.messages) = 4
  /\ chat.messages[4].isUser
  /\ chat.isLoading
  /\ Len(chat.timers) = 1

====
